---- MODULE Spec2Model ----
(***************************************************************************)
(* A model of goulash/twikutil: the typed Key registry (package key), the  *)
(* Executer binding environment it synchronises with, and the Function     *)
(* Adapter (Func / Format) of package twikutil.                            *)
(***************************************************************************)
EXTENDS Integers, Sequences, FiniteSets, TLC

VARIABLES
    km,      \* KeyMap: name -> Key record (NoKey where the map has no entry)
    scope,   \* Executer.scope: name -> bound value (Unbound where undefined)
    funcs,   \* Executer.funcs: the names registered as functions
    last,    \* the last operation: [op, name, err]
    plog,    \* per-Key results of the last batch operation, in processing order
    hlog,    \* calls of the error handler in the last batch Acquire
    wrapped, \* the host function wrapped by Func (NoFn before Func ran)
    res,     \* outcome of the last Func / invoke call
    calls    \* number of times the host function was invoked

vars == <<km, scope, funcs, last, plog, hlog, wrapped, res, calls>>
keyVars == <<km, scope, funcs, last, plog, hlog>>
fnVars == <<wrapped, res, calls>>

(***************************************************************************)
(* Go values: a dynamic type and a numeric payload.                        *)
(***************************************************************************)
Val(t, n) == [t |-> t, n |-> n]
Nil == Val("nil", 0)
Unbound == Val("unbound", 0)
FnVal == Val("func", 0)

\* reflect.TypeOf(v), rendered as by %v; TypeOf(nil) is the nil Type.
TypeOf(v) == IF v = Nil THEN "<nil>" ELSE v.t

(***************************************************************************)
(* Errors of package key.                                                  *)
(***************************************************************************)
Err(kind, name, got, wants) == [kind |-> kind, name |-> name, got |-> got, wants |-> wants]
NoErr == Err("nil", "", "", "")
ErrCatch == Err("ErrCatch", "", "", "")
ErrKeyExists == Err("ErrKeyExists", "", "", "")
ErrMissingValue == Err("ErrMissingValue", "", "", "")
ErrNotTyper == Err("ErrNotTyper", "", "", "")
RequiredError(name) == Err("RequiredError", name, "", "")
ImplementsError(name, got, wants) == Err("ImplementsError", name, got, wants)
NewTypeError(name, got, wants) == Err("TypeError", name, got, wants)

\* errors of the Executer and of the twik scope it wraps
ErrFuncSet == Err("function with that name already exists", "", "", "")
ErrFuncGet == Err("functions cannot be gotten", "", "", "")
ErrUndefined == Err("undefined symbol", "", "", "")
ErrDefined == Err("symbol already defined", "", "", "")

(***************************************************************************)
(* Mode bits.                                                              *)
(***************************************************************************)
Reserved == 0
Read == 1
Write == 2
Required == 4
ReadWrite == 3

\* m & bit # 0, for a single-bit mask
HasBit(m, bit) == (m \div bit) % 2 = 1

(***************************************************************************)
(* Type descriptors: a reflect.Type or a Typer.                            *)
(***************************************************************************)
ExactType(id) == [k |-> "type", id |-> id]
TyperFunc(id) == [k |-> "typer", id |-> id]
Anything == ExactType("interface {}")
Integer == TyperFunc("integer")
Float == TyperFunc("float")
NotATyper == [k |-> "other", id |-> "string"]

IsTyper(t) == t.k \in {"type", "typer"}

\* int(t) for t of type int16, int32 or int64.  Payloads of the model lie in
\* the int16 range, where the conversion keeps the numeric value on every
\* platform width.
IntConv(n) == n

\* Integer without the conversions: every integer type passes as it is
IntegerFnNoConv(v) ==
    IF v.t \in {"int", "int64", "int32", "int16"} THEN [v |-> v, err |-> NoErr]
    ELSE [v |-> Nil, err |-> ErrCatch]

IntegerFn(v) ==
    IF v.t = "int" THEN [v |-> v, err |-> NoErr]
    ELSE IF v.t \in {"int64", "int32", "int16"}
         THEN [v |-> Val("int", IntConv(v.n)), err |-> NoErr]
         ELSE [v |-> Nil, err |-> ErrCatch]

FloatFn(v) ==
    IF v.t = "float64" THEN [v |-> v, err |-> NoErr]
    ELSE IF v.t = "float32"
         THEN [v |-> Val("float64", v.n), err |-> NoErr]
         ELSE [v |-> Nil, err |-> ErrCatch]

TyperFn(t, v) == IF t.id = "integer" THEN IntegerFn(v) ELSE FloatFn(v)

\* typer.Coerce: the parameter v is reassigned by t.fn before the error is
\* built, so the TypeError's Got is the type of the value fn returned.
Coerce(t, v) ==
    LET r == TyperFn(t, v)
    IN  IF r.err = ErrCatch
        THEN [v |-> r.v, err |-> NewTypeError("", TypeOf(r.v), t.id)]
        ELSE r

\* the dynamic types of the model that have an Error() string method
ErrorTypes == {"*errors.errorString", "*twikutil.TypeError"}

\* t.Kind() == reflect.Interface, and vt.Implements(t), over the model's types
IsInterface(t) == t.id \in {"interface {}", "error"}
Implements(vt, t) == t.id = "interface {}" \/ (t.id = "error" /\ vt \in ErrorTypes)

chkType(name, t, v) ==
    LET vt == TypeOf(v)
    IN  IF IsInterface(t)
        THEN IF ~Implements(vt, t) THEN ImplementsError(name, vt, t.id) ELSE NoErr
        ELSE IF vt # t.id THEN NewTypeError(name, vt, t.id) ELSE NoErr

Check(name, typer, v) ==
    CASE typer.k = "type" -> [v |-> v, err |-> chkType(name, typer, v)]
      [] typer.k = "typer" ->
            LET r == Coerce(typer, v)
            IN  IF r.err.kind \in {"TypeError", "ImplementsError"} /\ r.err.name = ""
                THEN [v |-> r.v, err |-> [r.err EXCEPT !.name = name]]
                ELSE r
      [] OTHER -> [v |-> Nil, err |-> ErrNotTyper]

(***************************************************************************)
(* Key.                                                                    *)
(***************************************************************************)
Key(name, mode, typer, val) == [name |-> name, mode |-> mode, typer |-> typer, val |-> val]
NoKey == Key("", 0, [k |-> "none", id |-> ""], Nil)

KeyGet(k) == k.val

\* faulty variant of Key.Set: validates, but stores the value as given
\* instead of the value Check returned
KeySetRaw(k, v) ==
    IF v # Nil
    THEN LET r == Check(k.name, k.typer, v)
         IN  IF r.err # NoErr
             THEN [k |-> k, err |-> r.err]
             ELSE [k |-> [k EXCEPT !.val = v], err |-> NoErr]
    ELSE [k |-> [k EXCEPT !.val = Nil], err |-> NoErr]

KeySet(k, v) ==
    IF v # Nil
    THEN LET r == Check(k.name, k.typer, v)
         IN  IF r.err # NoErr
             THEN [k |-> k, err |-> r.err]
             ELSE [k |-> [k EXCEPT !.val = r.v], err |-> NoErr]
    ELSE [k |-> [k EXCEPT !.val = Nil], err |-> NoErr]

New(name, typer, def, m) ==
    IF ~IsTyper(typer)
    THEN [k |-> NoKey, err |-> ErrNotTyper]
    ELSE KeySet(Key(name, m, typer, Nil), def)

NewAuto(name, def, m) ==
    IF def = Nil
    THEN [k |-> NoKey, err |-> ErrMissingValue]
    ELSE [k |-> Key(name, m, ExactType(TypeOf(def)), def), err |-> NoErr]

(***************************************************************************)
(* The twik scope (an external library), by the contract the Executer      *)
(* relies on, and the Executer's Set / Get / Has.  e is [scope, funcs].    *)
(***************************************************************************)
ScopeGet(s, key) ==
    IF s[key] = Unbound THEN [v |-> Nil, err |-> ErrUndefined]
    ELSE [v |-> s[key], err |-> NoErr]

ScopeSet(s, key, value) ==
    IF s[key] = Unbound THEN [s |-> s, err |-> ErrUndefined]
    ELSE [s |-> [s EXCEPT ![key] = value], err |-> NoErr]

ScopeCreate(s, key, value) ==
    IF s[key] # Unbound THEN [s |-> s, err |-> ErrDefined]
    ELSE [s |-> [s EXCEPT ![key] = value], err |-> NoErr]

ExecuterSet(e, key, value) ==
    IF key \in e.funcs
    THEN [s |-> e.scope, err |-> ErrFuncSet]
    ELSE IF ScopeGet(e.scope, key).err = NoErr
         THEN ScopeSet(e.scope, key, value)
         ELSE ScopeCreate(e.scope, key, value)

ExecuterGet(e, key) ==
    IF key \in e.funcs
    THEN [v |-> Nil, err |-> ErrFuncGet]
    ELSE ScopeGet(e.scope, key)

ExecuterHas(e, key) ==
    IF key \in e.funcs
    THEN FALSE
    ELSE LET r == ScopeGet(e.scope, key)
         IN  r.err = NoErr /\ r.v # Nil

(***************************************************************************)
(* Key synchronisation.  Acquire yields the Key, the others the scope.     *)
(***************************************************************************)
\* faulty variant of Key.Acquire: the Required bit is not looked at
KeyAcquireNoRequired(k, e) ==
    IF ~HasBit(k.mode, Read)
    THEN [k |-> k, err |-> NoErr]
    ELSE IF ~ExecuterHas(e, k.name)
         THEN [k |-> k, err |-> NoErr]
         ELSE KeySet(k, ExecuterGet(e, k.name).v)

KeyAcquire(k, e) ==
    IF ~HasBit(k.mode, Read)
    THEN [k |-> k, err |-> NoErr]
    ELSE IF ~ExecuterHas(e, k.name)
         THEN IF HasBit(k.mode, Required)
              THEN [k |-> k, err |-> RequiredError(k.name)]
              ELSE [k |-> k, err |-> NoErr]
         ELSE KeySet(k, ExecuterGet(e, k.name).v)

\* faulty variant of Key.Apply: the Has test is missing
KeyApplyAlways(k, e) ==
    IF ~HasBit(k.mode, Write)
    THEN [s |-> e.scope, err |-> NoErr]
    ELSE ExecuterSet(e, k.name, k.val)

KeyApply(k, e) ==
    IF ~HasBit(k.mode, Write)
    THEN [s |-> e.scope, err |-> NoErr]
    ELSE IF ~ExecuterHas(e, k.name)
         THEN ExecuterSet(e, k.name, k.val)
         ELSE [s |-> e.scope, err |-> NoErr]

KeyApplyOrNil(k, e) ==
    IF ~HasBit(k.mode, Write)
    THEN ExecuterSet(e, k.name, Nil)
    ELSE IF ~ExecuterHas(e, k.name)
         THEN ExecuterSet(e, k.name, k.val)
         ELSE [s |-> e.scope, err |-> NoErr]

\* faulty variant of Key.Clobber: the mode test is missing
KeyClobberAnyMode(k, e) == ExecuterSet(e, k.name, k.val)

KeyClobber(k, e) ==
    IF ~HasBit(k.mode, Write)
    THEN [s |-> e.scope, err |-> NoErr]
    ELSE ExecuterSet(e, k.name, k.val)

(***************************************************************************)
(* KeyMap and Keys.  Names are Go strings; Bytes gives the bytes that      *)
(* string comparison works on.                                             *)
(***************************************************************************)
Names == {"a", "ab", "b"}

Bytes(name) ==
    CASE name = "a" -> <<97>>
      [] name = "ab" -> <<97, 98>>
      [] name = "b" -> <<98>>
      [] OTHER -> <<>>

Min(x, y) == IF x < y THEN x ELSE y

\* x < y on Go strings: bytewise lexicographic order
StrLess(x, y) ==
    LET bx == Bytes(x)
        by == Bytes(y)
        n == Min(Len(bx), Len(by))
        diff == {i \in 1..n : bx[i] # by[i]}
    IN  IF diff = {}
        THEN Len(bx) < Len(by)
        ELSE LET i == CHOOSE j \in diff : \A l \in diff : j <= l
             IN  bx[i] < by[i]

\* Keys.Less
KeysLess(x, y) == StrLess(x, y)

RECURSIVE SortInsert(_, _)
SortInsert(s, x) ==
    IF s = <<>> THEN <<x>>
    ELSE IF KeysLess(x, Head(s)) THEN <<x>> \o s
         ELSE <<Head(s)>> \o SortInsert(Tail(s), x)

RECURSIVE SortKeys(_)
SortKeys(s) == IF s = <<>> THEN <<>> ELSE SortInsert(SortKeys(Tail(s)), Head(s))

Registered(kmap) == {n \in Names : kmap[n] # NoKey}

\* the orders in which a range over the map may visit its entries
MapOrders(kmap) ==
    LET d == Registered(kmap)
    IN  {o \in [1..Cardinality(d) -> d] : \A i, j \in DOMAIN o : i # j => o[i] # o[j]}

\* faulty variant of KeyMap.Keys: the sort is missing
KeyMapKeysUnsorted(kmap, order) == order

\* KeyMap.Keys: collect the entries in map order, then sort by name
KeyMapKeys(kmap, order) == SortKeys(order)

KeyMapCreate(kmap, name, typer, def, m) ==
    IF kmap[name] # NoKey
    THEN [km |-> kmap, err |-> ErrKeyExists]
    ELSE LET r == New(name, typer, def, m)
         IN  IF r.err # NoErr
             THEN [km |-> kmap, err |-> r.err]
             ELSE [km |-> [kmap EXCEPT ![name] = r.k], err |-> NoErr]

KeyMapCreateAuto(kmap, name, def, m) ==
    IF kmap[name] # NoKey
    THEN [km |-> kmap, err |-> ErrKeyExists]
    ELSE LET r == NewAuto(name, def, m)
         IN  IF r.err # NoErr
             THEN [km |-> kmap, err |-> r.err]
             ELSE [km |-> [kmap EXCEPT ![name] = r.k], err |-> NoErr]

(***************************************************************************)
(* errs.Handler values passed to the batch Acquire.                        *)
(***************************************************************************)
ErrAbort == Err("handler: abort", "", "", "")
Handlers == {"ignore", "pass", "abort"}

Handle(h, err) ==
    CASE h = "ignore" -> NoErr
      [] h = "pass" -> err
      [] OTHER -> ErrAbort

(***************************************************************************)
(* Batch operations over a Keys slice ks (a sequence of names of Keys of   *)
(* the map).  st is [km, scope, plog, hlog, err].                          *)
(***************************************************************************)
BatchStart(kmap, s) == [km |-> kmap, scope |-> s, plog |-> <<>>, hlog |-> <<>>, err |-> NoErr]

\* faulty variant of Keys.Acquire: the handler is called for failures only
RECURSIVE KeysAcquireOnFailure(_, _, _, _, _)
KeysAcquireOnFailure(ks, i, h, fs, st) ==
    IF i > Len(ks) THEN st
    ELSE LET r == KeyAcquire(st.km[ks[i]], [scope |-> st.scope, funcs |-> fs])
             herr == IF r.err = NoErr THEN NoErr ELSE Handle(h, r.err)
             st1 == [st EXCEPT !.km[ks[i]] = r.k,
                               !.plog = Append(@, [name |-> ks[i], err |-> r.err])]
             st2 == IF r.err = NoErr THEN st1
                    ELSE [st1 EXCEPT !.hlog = Append(@, [name |-> ks[i], arg |-> r.err, ret |-> herr])]
         IN  IF herr # NoErr
             THEN [st2 EXCEPT !.err = herr]
             ELSE KeysAcquireOnFailure(ks, i + 1, h, fs, st2)

RECURSIVE KeysAcquire(_, _, _, _, _)
KeysAcquire(ks, i, h, fs, st) ==
    IF i > Len(ks) THEN st
    ELSE LET r == KeyAcquire(st.km[ks[i]], [scope |-> st.scope, funcs |-> fs])
             herr == Handle(h, r.err)
             st2 == [st EXCEPT !.km[ks[i]] = r.k,
                               !.plog = Append(@, [name |-> ks[i], err |-> r.err]),
                               !.hlog = Append(@, [name |-> ks[i], arg |-> r.err, ret |-> herr])]
         IN  IF herr # NoErr
             THEN [st2 EXCEPT !.err = herr]
             ELSE KeysAcquire(ks, i + 1, h, fs, st2)

\* one step of Apply / ApplyOrNil / Clobber on the Key named n
KeyPush(op, k, e) ==
    CASE op = "Apply" -> KeyApply(k, e)
      [] op = "ApplyOrNil" -> KeyApplyOrNil(k, e)
      [] OTHER -> KeyClobber(k, e)

RECURSIVE KeysPush(_, _, _, _, _)
KeysPush(op, ks, i, fs, st) ==
    IF i > Len(ks) THEN st
    ELSE LET r == KeyPush(op, st.km[ks[i]], [scope |-> st.scope, funcs |-> fs])
             st2 == [st EXCEPT !.scope = r.s,
                               !.plog = Append(@, [name |-> ks[i], err |-> r.err])]
         IN  IF r.err # NoErr
             THEN [st2 EXCEPT !.err = r.err]
             ELSE KeysPush(op, ks, i + 1, fs, st2)

KeysApply(ks, fs, st) == KeysPush("Apply", ks, 1, fs, st)
KeysApplyOrNil(ks, fs, st) == KeysPush("ApplyOrNil", ks, 1, fs, st)
KeysClobber(ks, fs, st) == KeysPush("Clobber", ks, 1, fs, st)

(***************************************************************************)
(* The Function Adapter (package twikutil).  A host function is            *)
(* [t = "func", in, variadic, out]: in and out are sequences of type       *)
(* identifiers, which are the strings reflect's Type.String() gives; the   *)
(* last in of a variadic function is its slice type.                       *)
(***************************************************************************)
HostFn(in, variadic, out) ==
    [t |-> "func", n |-> 0, in |-> in, variadic |-> variadic, out |-> out]
NoFn == [t |-> "none", n |-> 0, in |-> <<>>, variadic |-> FALSE, out |-> <<>>]

\* reflect.Type.Name(): the name of a named type, "" for an unnamed one
TypeNameOf(id) ==
    IF id \in {"error", "int", "string", "bool"} THEN id ELSE ""

\* reflect.Type.Elem() of the slice types of the model
Elem(id) ==
    CASE id = "[]interface {}" -> "interface {}"
      [] id = "[]int" -> "int"
      [] id = "[]string" -> "string"
      [] id = "[]uint8" -> "uint8"
      [] id = "[][]interface {}" -> "[]interface {}"
      [] id = "[][]uint8" -> "[]uint8"
      [] OTHER -> id

typeName(id) ==
    CASE id = "interface {}" -> "{}"
      [] id = "[]interface {}" -> "[]{}"
      [] id = "[]uint8" -> "[]byte"
      [] OTHER -> id

\* strings.Replace(n, "[]", "", 1) removes the leading "[]" of the slice
\* type's string, which leaves the element type's string.
variadicName(id) ==
    LET n == Elem(id)
    IN  "..." \o (IF n = "interface {}" THEN "{}"
                  ELSE IF n = "[]uint8" THEN "[]byte" ELSE n)

RECURSIVE FormatParams(_, _)
FormatParams(f, i) ==
    IF i > Len(f.in) THEN ""
    ELSE IF i = Len(f.in)
         THEN (IF f.variadic THEN variadicName(f.in[i]) ELSE typeName(f.in[i])) \o " => "
         ELSE typeName(f.in[i]) \o " -> " \o FormatParams(f, i + 1)

RECURSIVE invalidRetval(_, _)
invalidRetval(f, i) ==
    IF i > Len(f.out) THEN ""
    ELSE typeName(f.out[i]) \o (IF i # Len(f.out) THEN " -> " ELSE "") \o invalidRetval(f, i + 1)

FormatReturn(f) ==
    LET out == Len(f.out)
    IN  IF out = 0 THEN "()"
        ELSE IF out = 1
             THEN IF TypeNameOf(f.out[1]) = "error" THEN "()" ELSE typeName(f.out[1])
             ELSE IF out = 2
                  THEN IF TypeNameOf(f.out[1]) = "error" THEN invalidRetval(f, 1)
                       ELSE IF TypeNameOf(f.out[2]) # "error" THEN invalidRetval(f, 1)
                            ELSE typeName(f.out[1])
                  ELSE invalidRetval(f, 1)

Format(name, v) ==
    IF v.t # "func"
    THEN name \o " : " \o typeName(TypeOf(v))
    ELSE name \o " :: " \o FormatParams(v, 1) \o FormatReturn(v)

\* errors of the adapter; a nil error is Nil
FnTypeError(name, fn, got, want) ==
    [t |-> "*twikutil.TypeError", n |-> 0, name |-> name, fn |-> fn, got |-> got, want |-> want]

setFn(e, name, fn) == [e EXCEPT !.name = name, !.fn = fn]

newParamError(name, v) ==
    [t |-> "*errors.errorString", n |-> 0,
     msg |-> "Incorrect number of parameters to function " \o name \o ".\n\n\t"
             \o Format(name, v) \o "."]

\* v.(error) succeeds: v is not nil and its dynamic type implements error
IsError(v) == v.t \in ErrorTypes

Ret(v, err) == [v |-> v, err |-> err]

\* the closure funcReturn builds, applied to the host function's results vo
funcReturn(name, f, vo) ==
    LET out == Len(f.out)
    IN  IF out = 0 THEN Ret(Nil, Nil)
        ELSE IF out = 1
             THEN IF TypeNameOf(f.out[1]) # "error"
                  THEN Ret(vo[1], Nil)
                  ELSE IF IsError(vo[1])
                       THEN IF vo[1].t = "*twikutil.TypeError"
                            THEN Ret(Nil, setFn(vo[1], name, f))
                            ELSE Ret(Nil, vo[1])
                       ELSE Ret(Nil, Nil)
             ELSE IF IsError(vo[1])
                  THEN IF vo[1].t = "*twikutil.TypeError"
                       THEN Ret(Nil, setFn(vo[1], name, f))
                       ELSE Ret(vo[1], vo[1])
                  ELSE Ret(vo[1], Nil)

\* funcReturn panics while Func wraps f
funcReturnPanics(f) ==
    \/ Len(f.out) > 2
    \/ Len(f.out) = 2 /\ TypeNameOf(f.out[2]) # "error"

\* funcAccepts(ft, it): it is reflect.TypeOf(arg), the nil Type for a nil
\* arg, on which Implements is a nil dereference.
funcAccepts(ft, it) ==
    IF IsInterface([id |-> ft])
    THEN IF it = "<nil>" THEN "panic"
         ELSE IF Implements(it, [id |-> ft]) THEN "true" ELSE "false"
    ELSE IF ft = it THEN "true" ELSE "false"

\* outcome of one invoke: the pair returned, whether it panicked instead,
\* and whether the host function was called
Outcome(v, err, panic, called) == [v |-> v, err |-> err, panic |-> panic, called |-> called]
Panicked == Outcome(Nil, Nil, TRUE, FALSE)

MinOf(S) == CHOOSE x \in S : \A y \in S : x <= y

\* faulty variant of funcStandard: only too few arguments are a count error
funcStandardLoose(name, f, args, vo) ==
    LET in == Len(f.in)
        bad == {i \in 1..in : funcAccepts(f.in[i], TypeOf(args[i])) # "true"}
    IN  IF Len(args) < in
        THEN Outcome(Nil, newParamError(name, f), FALSE, FALSE)
        ELSE IF bad # {}
             THEN LET i == MinOf(bad)
                  IN  IF funcAccepts(f.in[i], TypeOf(args[i])) = "panic"
                      THEN Panicked
                      ELSE Outcome(Nil, FnTypeError(name, f, args[i], <<typeName(f.in[i])>>),
                                   FALSE, FALSE)
             ELSE LET r == funcReturn(name, f, vo)
                  IN  Outcome(r.v, r.err, FALSE, TRUE)

funcStandard(name, f, args, vo) ==
    LET in == Len(f.in)
        bad == {i \in 1..in : funcAccepts(f.in[i], TypeOf(args[i])) # "true"}
    IN  IF Len(args) # in
        THEN Outcome(Nil, newParamError(name, f), FALSE, FALSE)
        ELSE IF bad # {}
             THEN LET i == MinOf(bad)
                  IN  IF funcAccepts(f.in[i], TypeOf(args[i])) = "panic"
                      THEN Panicked
                      ELSE Outcome(Nil, FnTypeError(name, f, args[i], <<typeName(f.in[i])>>),
                                   FALSE, FALSE)
             ELSE LET r == funcReturn(name, f, vo)
                  IN  Outcome(r.v, r.err, FALSE, TRUE)

\* positions are 1-based: the variadic parameter is f.in[in], and t.In(i)
\* for a position beyond it is out of range (reflect panics)
funcVariadic(name, f, args, vo) ==
    LET in == Len(f.in)
        lastp == in - 1
        n == Len(args)
        want(i) == IF i <= lastp THEN f.in[i] ELSE Elem(f.in[in])
        bad == {i \in 1..n : funcAccepts(want(i), TypeOf(args[i])) # "true"}
    IN  IF n < lastp
        THEN Outcome(Nil, newParamError(name, f), FALSE, FALSE)
        ELSE IF bad # {}
             THEN LET i == MinOf(bad)
                  IN  IF funcAccepts(want(i), TypeOf(args[i])) = "panic" \/ i > in
                      THEN Panicked
                      ELSE Outcome(Nil, FnTypeError(name, f, args[i], <<typeName(f.in[i])>>),
                                   FALSE, FALSE)
             ELSE LET r == funcReturn(name, f, vo)
                  IN  Outcome(r.v, r.err, FALSE, TRUE)

\* Func: "ok" with the closure chosen, or "panic"
Func(name, f) ==
    IF f.t # "func" THEN "panic"
    ELSE IF funcReturnPanics(f) THEN "panic"
         ELSE IF f.variadic THEN "variadic" ELSE "standard"

Invoke(name, f, args, vo) ==
    IF f.variadic THEN funcVariadic(name, f, args, vo) ELSE funcStandard(name, f, args, vo)

(***************************************************************************)
(* Executer.Create registers a host function under a name.                 *)
(***************************************************************************)
ExecuterCreate(e, key) ==
    LET r == ScopeCreate(e.scope, key, FnVal)
    IN  IF r.err # NoErr
        THEN [s |-> e.scope, funcs |-> e.funcs, err |-> r.err]
        ELSE [s |-> r.s, funcs |-> e.funcs \cup {key}, err |-> NoErr]

(***************************************************************************)
(* State and actions of the Key specifications.                            *)
(***************************************************************************)
Last(op, name, err) == [op |-> op, name |-> name, err |-> err]

InitKey ==
    /\ km = [n \in Names |-> NoKey]
    /\ funcs = {}
    /\ scope = [n \in Names |-> Unbound]
    /\ last = Last("init", "", NoErr)
    /\ plog = <<>>
    /\ hlog = <<>>

NoWrap == [name |-> "", f |-> NoFn, kind |-> "none"]
NoOutcome == Outcome(Nil, Nil, FALSE, FALSE)

InitFn ==
    /\ wrapped = NoWrap
    /\ res = [op |-> "init", args |-> <<>>, vo |-> <<>>, out |-> NoOutcome]
    /\ calls = 0

Init == InitKey /\ InitFn

Env == [scope |-> scope, funcs |-> funcs]

DoCreate(n, t, d, m) ==
    LET r == KeyMapCreate(km, n, t, d, m)
    IN  /\ km' = r.km
        /\ last' = Last("Create", n, r.err)
        /\ plog' = <<>> /\ hlog' = <<>>
        /\ UNCHANGED <<scope, funcs, fnVars>>

DoCreateAuto(n, d, m) ==
    LET r == KeyMapCreateAuto(km, n, d, m)
    IN  /\ km' = r.km
        /\ last' = Last("CreateAuto", n, r.err)
        /\ plog' = <<>> /\ hlog' = <<>>
        /\ UNCHANGED <<scope, funcs, fnVars>>

DoSet(n, v) ==
    /\ km[n] # NoKey
    /\ LET r == KeySet(km[n], v)
       IN  /\ km' = [km EXCEPT ![n] = r.k]
           /\ last' = Last("Set", n, r.err)
    /\ plog' = <<>> /\ hlog' = <<>>
    /\ UNCHANGED <<scope, funcs, fnVars>>

DoSetMode(n, m) ==
    /\ km[n] # NoKey
    /\ km' = [km EXCEPT ![n].mode = m]
    /\ last' = Last("SetMode", n, NoErr)
    /\ plog' = <<>> /\ hlog' = <<>>
    /\ UNCHANGED <<scope, funcs, fnVars>>

DoAcquire(n) ==
    /\ km[n] # NoKey
    /\ LET r == KeyAcquire(km[n], Env)
       IN  /\ km' = [km EXCEPT ![n] = r.k]
           /\ last' = Last("Acquire", n, r.err)
    /\ plog' = <<>> /\ hlog' = <<>>
    /\ UNCHANGED <<scope, funcs, fnVars>>

DoApply(n) ==
    /\ km[n] # NoKey
    /\ LET r == KeyApply(km[n], Env)
       IN  /\ scope' = r.s
           /\ last' = Last("Apply", n, r.err)
    /\ plog' = <<>> /\ hlog' = <<>>
    /\ UNCHANGED <<km, funcs, fnVars>>

DoApplyOrNil(n) ==
    /\ km[n] # NoKey
    /\ LET r == KeyApplyOrNil(km[n], Env)
       IN  /\ scope' = r.s
           /\ last' = Last("ApplyOrNil", n, r.err)
    /\ plog' = <<>> /\ hlog' = <<>>
    /\ UNCHANGED <<km, funcs, fnVars>>

DoClobber(n) ==
    /\ km[n] # NoKey
    /\ LET r == KeyClobber(km[n], Env)
       IN  /\ scope' = r.s
           /\ last' = Last("Clobber", n, r.err)
    /\ plog' = <<>> /\ hlog' = <<>>
    /\ UNCHANGED <<km, funcs, fnVars>>

Finish(op, st) ==
    /\ km' = st.km
    /\ scope' = st.scope
    /\ plog' = st.plog
    /\ hlog' = st.hlog
    /\ last' = Last(op, "", st.err)
    /\ UNCHANGED <<funcs, fnVars>>

DoKeyMapAcquire(h) ==
    \E o \in MapOrders(km) :
        Finish("KeyMapAcquire", KeysAcquire(KeyMapKeys(km, o), 1, h, funcs, BatchStart(km, scope)))

DoKeyMapApply ==
    \E o \in MapOrders(km) :
        Finish("KeyMapApply", KeysApply(KeyMapKeys(km, o), funcs, BatchStart(km, scope)))

DoKeysApplyOrNil ==
    \E o \in MapOrders(km) :
        Finish("KeysApplyOrNil", KeysApplyOrNil(KeyMapKeys(km, o), funcs, BatchStart(km, scope)))

DoKeyMapClobber ==
    \E o \in MapOrders(km) :
        Finish("KeyMapClobber", KeysClobber(KeyMapKeys(km, o), funcs, BatchStart(km, scope)))

\* the script, or the host, binds a variable through Executer.Set
DoExecuterSet(n, v) ==
    LET r == ExecuterSet(Env, n, v)
    IN  /\ scope' = r.s
        /\ last' = Last("ExecuterSet", n, r.err)
        /\ plog' = <<>> /\ hlog' = <<>>
        /\ UNCHANGED <<km, funcs, fnVars>>

DoExecuterCreate(n) ==
    LET r == ExecuterCreate(Env, n)
    IN  /\ scope' = r.s
        /\ funcs' = r.funcs
        /\ last' = Last("ExecuterCreate", n, r.err)
        /\ plog' = <<>> /\ hlog' = <<>>
        /\ UNCHANGED <<km, fnVars>>

(***************************************************************************)
(* Spec: one Key name, every mode, exact and coercion descriptors.         *)
(***************************************************************************)
KeyName == {"a"}
Modes == 0..7
Typers == {ExactType("int"), ExactType("string"), Integer, Float, NotATyper}
Values == {Nil, Val("int", 3), Val("int32", 5), Val("float32", 2), Val("string", 0)}

Next ==
    \/ \E n \in KeyName, t \in Typers, d \in Values, m \in Modes : DoCreate(n, t, d, m)
    \/ \E n \in KeyName, d \in Values, m \in Modes : DoCreateAuto(n, d, m)
    \/ \E n \in KeyName, v \in Values : DoSet(n, v)
    \/ \E n \in KeyName, m \in Modes : DoSetMode(n, m)
    \/ \E n \in KeyName : DoAcquire(n)
    \/ \E n \in KeyName : DoApply(n)
    \/ \E n \in KeyName : DoApplyOrNil(n)
    \/ \E n \in KeyName : DoClobber(n)
    \/ \E h \in Handlers : DoKeyMapAcquire(h)
    \/ DoKeyMapApply
    \/ DoKeysApplyOrNil
    \/ DoKeyMapClobber
    \/ \E n \in KeyName, v \in Values : DoExecuterSet(n, v)
    \/ \E n \in KeyName : DoExecuterCreate(n)

Spec == Init /\ [][Next]_vars

(***************************************************************************)
(* SpecBatch: a KeyMap of up to three Integer Keys and its batch           *)
(* operations; "ab", the middle name in sorted order, may be a function.   *)
(***************************************************************************)
BatchModes == {ReadWrite, Read + Required}
BatchValues == {Val("int32", 5), Val("string", 0)}
FuncNames == {"ab"}

NextBatch ==
    \/ \E n \in Names, m \in BatchModes : DoCreate(n, Integer, Val("int", 3), m)
    \/ \E h \in Handlers : DoKeyMapAcquire(h)
    \/ DoKeyMapApply
    \/ DoKeysApplyOrNil
    \/ DoKeyMapClobber
    \/ \E n \in Names, v \in BatchValues : DoExecuterSet(n, v)
    \/ \E n \in FuncNames : DoExecuterCreate(n)

SpecBatch == Init /\ [][NextBatch]_vars

(***************************************************************************)
(* SpecFn: Func wraps a host function, and the closure is invoked with     *)
(* argument lists of up to MaxArgs values.                                 *)
(***************************************************************************)
MaxArgs == 3
MaxCalls == 2

FnNames == {"outer"}
ArgValues == {Val("string", 0), Val("int", 1), Nil}

ParamLists ==
    {[in |-> <<>>, variadic |-> FALSE],
     [in |-> <<"string">>, variadic |-> FALSE],
     [in |-> <<"string", "int">>, variadic |-> FALSE],
     [in |-> <<"interface {}", "string">>, variadic |-> FALSE],
     [in |-> <<"[]int">>, variadic |-> TRUE],
     [in |-> <<"string", "[]int">>, variadic |-> TRUE],
     [in |-> <<"string", "[]interface {}">>, variadic |-> TRUE]}

ReturnLists ==
    {<<>>, <<"error">>, <<"int">>, <<"int", "error">>, <<"interface {}", "error">>,
     <<"int", "int">>, <<"int", "int", "error">>}

HostFns == {HostFn(p.in, p.variadic, o) : p \in ParamLists, o \in ReturnLists}

\* a TypeError that a wrapped function "inner" returned for a mistyped
\* argument, which the host function passes on
InnerFn == HostFn(<<"string">>, FALSE, <<>>)
InnerError == funcStandard("inner", InnerFn, <<Val("int", 1)>>, <<>>).err
PlainError == [t |-> "*errors.errorString", n |-> 0, msg |-> "failed"]
\* NewTypeError(got, want): no name yet
BareTypeError == FnTypeError("", Nil, Val("int", 1), <<"string">>)

\* the values a host function may return for a result of type id
ResultsOf(id) ==
    CASE id = "error" -> {Nil, PlainError, BareTypeError, InnerError}
      [] id = "interface {}" -> {Val("int", 7), Nil, PlainError}
      [] OTHER -> {Val(id, 7)}

HostReturns(f) ==
    {vo \in [1..Len(f.out) -> UNION {ResultsOf(f.out[i]) : i \in 1..Len(f.out)}] :
        \A i \in 1..Len(f.out) : vo[i] \in ResultsOf(f.out[i])}

ArgLists == UNION {[1..n -> ArgValues] : n \in 0..MaxArgs}

DoFunc(name, f) ==
    LET kind == Func(name, f)
    IN  /\ wrapped' = IF kind = "panic"
                      THEN [name |-> name, f |-> NoFn, kind |-> "panic"]
                      ELSE [name |-> name, f |-> f, kind |-> kind]
        /\ res' = [op |-> "Func", args |-> <<>>, vo |-> <<>>,
                   out |-> IF kind = "panic" THEN Panicked ELSE NoOutcome]
        /\ calls' = 0
        /\ UNCHANGED keyVars

DoInvoke(args, vo) ==
    /\ wrapped.kind \in {"standard", "variadic"}
    /\ calls < MaxCalls
    /\ LET out == Invoke(wrapped.name, wrapped.f, args, vo)
       IN  /\ res' = [op |-> "invoke", args |-> args,
                      vo |-> IF out.called THEN vo ELSE <<>>, out |-> out]
           /\ calls' = IF out.called THEN calls + 1 ELSE calls
    /\ UNCHANGED <<wrapped, keyVars>>

NextFn ==
    \/ \E name \in FnNames, f \in HostFns \cup {Val("int", 1)} : DoFunc(name, f)
    \/ \E args \in ArgLists, vo \in HostReturns(wrapped.f) : DoInvoke(args, vo)

SpecFn == Init /\ [][NextFn]_vars

(***************************************************************************)
(* Properties of the Key (checked under Spec).                             *)
(***************************************************************************)
SingleSync == {"Acquire", "Apply", "ApplyOrNil", "Clobber"}
BatchOps == {"KeyMapAcquire", "KeyMapApply", "KeysApplyOrNil", "KeyMapClobber"}

IsKey(n) == km[n] # NoKey
\* the names the step's operation processed
Processed(lst, pl) ==
    IF lst.op \in SingleSync THEN {lst.name}
    ELSE IF lst.op \in BatchOps THEN {pl[i].name : i \in DOMAIN pl}
         ELSE {}

\* C1 as stated: a Key of mode Reserved is inert.  No Acquire, Apply,
\* ApplyOrNil or Clobber, single or batch, changes its value or creates or
\* modifies the environment binding under its name.
C1_Original ==
    [][\A n \in Names :
          (IsKey(n) /\ km[n].mode = Reserved /\ n \in Processed(last', plog'))
              => (km'[n] = km[n] /\ scope'[n] = scope[n])]_vars

\* C1 amended: Acquire, Apply and Clobber, single or batch, leave a Reserved
\* Key's value and the binding under its name unchanged; ApplyOrNil leaves
\* the value unchanged and binds the name to nil, unless the name is a
\* registered function, when the binding stays as it is.
C1_ReservedInert ==
    [][\A n \in Names :
          (IsKey(n) /\ km[n].mode = Reserved /\ n \in Processed(last', plog'))
              => /\ km'[n] = km[n]
                 /\ IF last'.op \in {"ApplyOrNil", "KeysApplyOrNil"} /\ n \notin funcs
                    THEN scope'[n] = Nil
                    ELSE scope'[n] = scope[n]]_vars

\* a Reserved Key holding 3 was clobbered and its name is still unbound
C1_Witness ==
    /\ last = Last("Clobber", "a", NoErr)
    /\ km["a"].mode = Reserved
    /\ km["a"].val = Val("int", 3)
    /\ scope["a"] = Unbound

\* C2 as stated: with Write, Apply leaves any existing binding (nil
\* included) as it is and Clobber leaves the binding equal to the Key's
\* value; without Write both leave the environment alone.  (Stated for a
\* name that is not a registered function.)
C2_Original ==
    [][\A n \in Names \ funcs :
          (IsKey(n) /\ last'.name = n /\ last'.op \in {"Apply", "Clobber"})
              => IF HasBit(km[n].mode, Write)
                 THEN /\ (last'.op = "Apply" /\ scope[n] # Unbound) => scope'[n] = scope[n]
                      /\ last'.op = "Clobber" => scope'[n] = km[n].val
                 ELSE scope' = scope]_vars

\* C2 amended: for a Key with Write whose name is not a registered
\* function, Apply leaves a non-nil binding as it is and binds the name to
\* the Key's value when the name is unbound or bound to nil, and Clobber
\* leaves the binding equal to the Key's value; when the name is a
\* registered function both fail and leave the binding as it is; without
\* Write both succeed and leave the environment alone.
C2_ApplyClobber ==
    [][\A n \in Names :
          (IsKey(n) /\ last'.name = n /\ last'.op \in {"Apply", "Clobber"})
              => IF ~HasBit(km[n].mode, Write)
                 THEN scope' = scope /\ last'.err = NoErr
                 ELSE IF n \in funcs
                      THEN scope' = scope /\ last'.err # NoErr
                      ELSE /\ last'.err = NoErr
                           /\ \A o \in Names \ {n} : scope'[o] = scope[o]
                           /\ IF last'.op = "Apply" /\ scope[n] \notin {Unbound, Nil}
                              THEN scope'[n] = scope[n]
                              ELSE scope'[n] = km[n].val]_vars

\* Apply ran on a writable Key holding 3 and the older binding 5 is kept
C2_Witness ==
    /\ last = Last("Apply", "a", NoErr)
    /\ HasBit(km["a"].mode, Write)
    /\ km["a"].val = Val("int", 3)
    /\ scope["a"] = Val("int32", 5)

\* C4: Acquire on a Key whose name the environment does not bind fails
\* with RequiredError naming the Key when the mode is Read|Required,
\* succeeds when the mode has Read and not Required, and leaves the value
\* unchanged in both cases; without Read, Acquire succeeds and leaves the
\* Key unchanged whatever the environment holds.
C4_AcquireAbsent ==
    [][\A n \in Names :
          (IsKey(n) /\ last'.op = "Acquire" /\ last'.name = n)
              => /\ ~HasBit(km[n].mode, Read) => (last'.err = NoErr /\ km'[n] = km[n])
                 /\ (HasBit(km[n].mode, Read) /\ scope[n] = Unbound)
                        => /\ km'[n] = km[n]
                           /\ km[n].mode = Read + Required
                                 => last'.err = Err("RequiredError", n, "", "")
                           /\ ~HasBit(km[n].mode, Required) => last'.err = NoErr]_vars

\* a Read|Required Key holding 3 failed to acquire its unbound name
C4_Witness ==
    /\ last = Last("Acquire", "a", Err("RequiredError", "a", "", ""))
    /\ km["a"].mode = Read + Required
    /\ km["a"].val = Val("int", 3)
    /\ scope["a"] = Unbound

\* a value conforms to a descriptor: its type is the exact type, or it is
\* the canonical int / float64 of the coercion rule
Conforms(typer, v) ==
    CASE typer.k = "type" -> v # Nil /\ v.t = typer.id
      [] typer = TyperFunc("integer") -> v.t = "int"
      [] typer = TyperFunc("float") -> v.t = "float64"
      [] OTHER -> FALSE

\* C5: the stored value of every Key is nil or conforms to the Key's
\* descriptor, and a Set or Acquire that fails leaves the Key as it was.
C5_ValueConforms ==
    /\ [](\A n \in Names : IsKey(n) => (km[n].val = Nil \/ Conforms(km[n].typer, km[n].val)))
    /\ [][\A n \in Names :
             (IsKey(n) /\ last'.op \in {"Set", "Acquire"} /\ last'.name = n /\ last'.err # NoErr)
                 => km'[n] = km[n]]_vars

\* an Integer Key holding 5 (coerced from int32) rejected the string bound
\* in the environment
C5_Witness ==
    /\ last.op = "Acquire" /\ last.err.kind = "TypeError"
    /\ km["a"].typer = Integer
    /\ km["a"].val = Val("int", 5)
    /\ scope["a"] = Val("string", 0)

(***************************************************************************)
(* Properties of the batch operations (checked under SpecBatch).           *)
(***************************************************************************)
\* C6 as stated: the batch Acquire calls the handler exactly once for each
\* Key whose Acquire failed and never for a Key whose Acquire succeeded.
C6_Original ==
    last.op = "KeyMapAcquire" =>
        \A i \in DOMAIN plog :
            Cardinality({j \in DOMAIN hlog : hlog[j].name = plog[i].name})
                = IF plog[i].err # NoErr THEN 1 ELSE 0

\* C6 amended: the batch Acquire calls the handler exactly once for every
\* Key it processes, with that Key's Acquire result (nil for a success);
\* when the handler returns nil the batch goes on to the next Key, and when
\* it returns an error the batch stops and returns that error.
C6_HandlerPerKey ==
    last.op = "KeyMapAcquire" =>
        /\ Len(hlog) = Len(plog)
        /\ \A i \in DOMAIN plog : hlog[i].name = plog[i].name /\ hlog[i].arg = plog[i].err
        /\ \A i \in DOMAIN hlog : i < Len(hlog) => hlog[i].ret = NoErr
        /\ last.err = IF hlog = <<>> THEN NoErr ELSE hlog[Len(hlog)].ret
        /\ last.err = NoErr => Len(plog) = Cardinality(Registered(km))

\* three Keys were acquired: the handler saw a success, then suppressed a
\* failure, then saw another success
C6_Witness ==
    /\ last = Last("KeyMapAcquire", "", NoErr)
    /\ Len(hlog) = 3
    /\ hlog[1].arg = NoErr
    /\ hlog[2].arg # NoErr /\ hlog[2].ret = NoErr
    /\ hlog[3].arg = NoErr

\* the names in ascending order of Go's string comparison
Ascending == <<"a", "ab", "b">>
Pos(n) == CHOOSE i \in DOMAIN Ascending : Ascending[i] = n

\* C7: a KeyMap batch operation processes the Keys in strictly ascending
\* order of name without skipping one, stops at the first error that is
\* not suppressed and returns it, keeps what it did to the Keys before the
\* failing one, and neither reads nor writes a Key after it.
C7_OrderedFailFast ==
    [][last'.op \in BatchOps =>
        LET done == {plog'[i].name : i \in DOMAIN plog'}
        IN  /\ \A i \in DOMAIN plog' : IsKey(plog'[i].name)
            /\ \A i, j \in DOMAIN plog' : i < j => Pos(plog'[i].name) < Pos(plog'[j].name)
            /\ \A n \in Registered(km), d \in done : Pos(n) < Pos(d) => n \in done
            /\ \A i \in DOMAIN plog' : i < Len(plog') =>
                   IF last'.op = "KeyMapAcquire" THEN hlog'[i].ret = NoErr
                   ELSE plog'[i].err = NoErr
            /\ last'.err = NoErr => done = Registered(km)
            /\ last'.err # NoErr =>
                   /\ plog' # <<>>
                   /\ last'.err = IF last'.op = "KeyMapAcquire"
                                  THEN hlog'[Len(hlog')].ret
                                  ELSE plog'[Len(plog')].err
            /\ \A n \in Names \ done : km'[n] = km[n] /\ scope'[n] = scope[n]
            /\ \A n \in done \ funcs :
                   /\ (last'.op = "KeyMapClobber" /\ HasBit(km[n].mode, Write))
                          => scope'[n] = km[n].val
                   /\ (last'.op = "KeyMapApply" /\ HasBit(km[n].mode, Write)
                          /\ scope[n] \in {Unbound, Nil})
                          => scope'[n] = km[n].val
                   /\ (last'.op = "KeysApplyOrNil" /\ ~HasBit(km[n].mode, Write))
                          => scope'[n] = Nil
                   /\ (last'.op = "KeyMapAcquire" /\ HasBit(km[n].mode, Read)
                          /\ scope[n] = Val("int32", 5))
                          => km'[n].val = Val("int", 5)]_vars

\* Apply over three Keys failed on "ab", a function name: "a" is bound to
\* its Key's value and "b" is still unbound
C7_Witness ==
    /\ last.op = "KeyMapApply" /\ last.err # NoErr
    /\ Cardinality(Registered(km)) = 3
    /\ Len(plog) = 2 /\ plog[2].name = "ab"
    /\ scope["a"] = Val("int", 3)
    /\ HasBit(km["b"].mode, Write) /\ scope["b"] = Unbound

(***************************************************************************)
(* Properties of the Function Adapter (checked under SpecFn).              *)
(***************************************************************************)
IsFnTypeError(v) == v.t = "*twikutil.TypeError"

\* e is the error v, with or without the function context attached
SameError(e, v) ==
    IF IsFnTypeError(v)
    THEN IsFnTypeError(e) /\ e.got = v.got /\ e.want = v.want
    ELSE e = v

\* C3: a host function with no result yields (nil, nil); with one result
\* of type error (nil, that error); with one other result (that value,
\* nil); with two results (the first value, the second as error or nil).
C3_ReturnNormalization ==
    (res.op = "invoke" /\ res.out.called) =>
        LET out == wrapped.f.out
            vo == res.vo
            r == res.out
        IN  CASE Len(out) = 0 -> r.v = Nil /\ r.err = Nil
              [] Len(out) = 1 /\ out[1] = "error" -> r.v = Nil /\ SameError(r.err, vo[1])
              [] Len(out) = 1 /\ out[1] # "error" -> r.v = vo[1] /\ r.err = Nil
              [] OTHER -> r.v = vo[1] /\ SameError(r.err, vo[2])

\* the leading arguments of a variadic call all have their parameter's type
LeadingMatch(f, args) ==
    \A i \in 1..(Len(f.in) - 1) :
        args[i] # Nil /\ (f.in[i] = "interface {}" \/ f.in[i] = args[i].t)

\* C8: a wrapped variadic function with k leading parameters returns a
\* parameter-count error for fewer than k arguments, calls the host
\* function for exactly k matching arguments, and for the first trailing
\* argument whose type is not the element type returns, without a panic
\* and without calling the host function, a TypeError naming the function,
\* that argument and an expected type.  (Stated for arguments that have a
\* dynamic type, that is, are not nil.)
C8_Variadic ==
    (res.op = "invoke" /\ wrapped.kind = "variadic" /\ \A i \in DOMAIN res.args : res.args[i] # Nil) =>
        LET f == wrapped.f
            k == Len(f.in) - 1
            args == res.args
            elem == Elem(f.in[Len(f.in)])
            bad == {i \in (k + 1)..Len(args) : elem # "interface {}" /\ args[i].t # elem}
            r == res.out
        IN  /\ Len(args) < k => (~r.panic /\ ~r.called /\ r.err = newParamError(wrapped.name, f))
            /\ (Len(args) = k /\ LeadingMatch(f, args)) => (~r.panic /\ r.called)
            /\ (Len(args) >= k /\ LeadingMatch(f, args) /\ bad # {}) =>
                   /\ ~r.panic
                   /\ ~r.called
                   /\ IsFnTypeError(r.err)
                   /\ r.err.name = wrapped.name
                   /\ r.err.got = args[MinOf(bad)]
                   /\ r.err.want # <<>>

\* the argument positions whose value the parameter's type does not accept
Mismatches(f, args) ==
    {i \in 1..Len(f.in) :
        \/ args[i] = Nil
        \/ f.in[i] # "interface {}" /\ args[i].t # f.in[i]}

C10_NameKept ==
    (res.op = "invoke" /\ res.out.called) =>
        \A i \in DOMAIN res.vo :
            (IsFnTypeError(res.vo[i]) /\ res.vo[i].name # "" /\ IsFnTypeError(res.out.err))
                => res.out.err.name = res.vo[i].name

(***************************************************************************)
(* SpecCheck: the built-in coercion Typers and Format applied to bounded   *)
(* inputs; res records the call and what it returned.                      *)
(***************************************************************************)
CheckTypers == {Integer, Float}
CheckTypes == {"int", "int16", "int32", "int64", "float32", "float64", "string", "bool"}
CheckPayloads == {-2, 0, 7}
CheckValues == {Val(t, n) : t \in CheckTypes, n \in CheckPayloads} \cup {Nil}

DoCheck(name, typer, v) ==
    /\ res' = [op |-> "Check", name |-> name, typer |-> typer, args |-> <<v>>,
               out |-> Check(name, typer, v)]
    /\ UNCHANGED <<wrapped, calls, keyVars>>

DoCoerce(typer, v) ==
    /\ res' = [op |-> "Coerce", name |-> "", typer |-> typer, args |-> <<v>>,
               out |-> Coerce(typer, v)]
    /\ UNCHANGED <<wrapped, calls, keyVars>>

\* Format reads t.Kind() of reflect.TypeOf(v) first, which panics on the nil
\* Type that TypeOf gives for a nil v.
FormatCall(name, v) ==
    IF v = Nil THEN [s |-> "", panic |-> TRUE]
    ELSE [s |-> Format(name, v), panic |-> FALSE]

FormatParamLists ==
    {[in |-> <<>>, variadic |-> FALSE],
     [in |-> <<"string">>, variadic |-> FALSE],
     [in |-> <<"io.Reader">>, variadic |-> FALSE],
     [in |-> <<"[]interface {}">>, variadic |-> FALSE],
     [in |-> <<"string", "[]uint8", "os.FileMode">>, variadic |-> FALSE],
     [in |-> <<"[]interface {}">>, variadic |-> TRUE],
     [in |-> <<"string", "[]interface {}">>, variadic |-> TRUE],
     [in |-> <<"interface {}", "[]int">>, variadic |-> TRUE],
     [in |-> <<"[][]uint8">>, variadic |-> TRUE],
     [in |-> <<"[][]interface {}">>, variadic |-> TRUE]}

FormatReturnLists ==
    {<<>>, <<"error">>, <<"int">>, <<"time.Time">>, <<"[]interface {}">>,
     <<"[]uint8", "error">>, <<"interface {}", "error">>,
     <<"int", "int">>, <<"error", "int">>, <<"int", "int", "error">>}

FormatValues ==
    {HostFn(p.in, p.variadic, o) : p \in FormatParamLists, o \in FormatReturnLists}
        \cup {Val(t, 0) : t \in {"bool", "int", "string", "[]uint8", "[]interface {}"}}
        \cup {Nil}

DoFormat(name, v) ==
    /\ res' = [op |-> "Format", name |-> name, typer |-> NotATyper, args |-> <<v>>,
               out |-> FormatCall(name, v)]
    /\ UNCHANGED <<wrapped, calls, keyVars>>

NextCheck ==
    \/ \E name \in Names, typer \in CheckTypers, v \in CheckValues : DoCheck(name, typer, v)
    \/ \E typer \in CheckTypers, v \in CheckValues : DoCoerce(typer, v)
    \/ \E name \in Names, v \in FormatValues : DoFormat(name, v)

SpecCheck == Init /\ [][NextCheck]_vars

\* the accepted domain of a built-in coercion Typer and its canonical type
Domain(t) == IF t.id = "integer" THEN {"int", "int16", "int32", "int64"}
             ELSE {"float32", "float64"}
Canonical(t) == IF t.id = "integer" THEN "int" ELSE "float64"

\* C11: a built-in coercion Typer given a value outside its domain fails
\* with a TypeError whose Wants is the Typer's name and whose Got is the
\* type of the rejected input, never with ErrCatch; a value inside the
\* domain gives the canonical float64 / int of the same numeric value.
C11_CoercionError ==
    res.op \in {"Check", "Coerce"} =>
        LET v == res.args[1]
            t == res.typer
        IN  IF TypeOf(v) \in Domain(t)
            THEN res.out.err = NoErr /\ res.out.v = Val(Canonical(t), v.n)
            ELSE /\ res.out.err # ErrCatch
                 /\ res.out.err.kind = "TypeError"
                 /\ res.out.err.wants = t.id
                 /\ res.out.err.got = TypeOf(v)

\* the signature grammar: short names of types, parameters joined by " -> "
ShortName(id) ==
    CASE id = "interface {}" -> "{}"
      [] id = "[]interface {}" -> "[]{}"
      [] id = "[]uint8" -> "[]byte"
      [] OTHER -> id

ParamName(f, i) ==
    IF i = Len(f.in) /\ f.variadic THEN "..." \o ShortName(Elem(f.in[i]))
    ELSE ShortName(f.in[i])

RECURSIVE JoinParams(_, _)
JoinParams(f, i) ==
    IF i = Len(f.in) THEN ParamName(f, i)
    ELSE ParamName(f, i) \o " -> " \o JoinParams(f, i + 1)

\* the return shapes the grammar names: nothing, only an error, a value,
\* or (value, error)
GrammarReturn(f) ==
    \/ Len(f.out) \in {0, 1}
    \/ Len(f.out) = 2 /\ f.out[1] # "error" /\ f.out[2] = "error"

ReturnPart(f) ==
    IF f.out = <<>> \/ f.out = <<"error">> THEN "()" ELSE ShortName(f.out[1])

Signature(name, v) ==
    IF v.t # "func" THEN name \o " : " \o ShortName(v.t)
    ELSE IF Len(v.in) = 0 THEN name \o " :: " \o ReturnPart(v)
         ELSE name \o " :: " \o JoinParams(v, 1) \o " => " \o ReturnPart(v)

\* C12: Format(name, v) is the signature grammar's string for v: "name : Type"
\* for a non-function, "name :: P1 -> ... -> Pn => R" for a function with
\* parameters (a variadic last parameter as "..." and its element type),
\* "name :: R" for one without, R being "()" or the first result's type,
\* with {} / []{} / []byte for interface{}, []interface{} and []uint8.
\* Stated for typed values and for the return shapes the grammar names.
C12_FormatGrammar ==
    (res.op = "Format" /\ res.args[1] # Nil
        /\ (res.args[1].t = "func" => GrammarReturn(res.args[1])))
      => (~res.out.panic /\ res.out.s = Signature(res.name, res.args[1]))

(***************************************************************************)
(* SpecRound: one Integer Key with an int default and mode Read|Write is   *)
(* applied to and acquired from an environment in which its name starts    *)
(* unbound and is no function; once the name is bound, the host rebinds it *)
(* to integers of every width.                                             *)
(***************************************************************************)
IntTypes == {"int", "int16", "int32", "int64"}
RoundDefaults == {Val("int", 3), Val("int", 0)}
RoundValues == {Val(t, n) : t \in IntTypes, n \in {5, -2, 7}}

NextRound ==
    \/ \E n \in KeyName, d \in RoundDefaults : DoCreate(n, Integer, d, ReadWrite)
    \/ \E n \in KeyName : DoApply(n)
    \/ \E n \in KeyName : DoAcquire(n)
    \/ \E n \in KeyName, v \in RoundValues : scope[n] # Unbound /\ DoExecuterSet(n, v)

SpecRound == Init /\ [][NextRound]_vars

\* C13: for an Integer Key with an int value and mode Read|Write whose name
\* is no function: Apply on an unbound name binds it to the Key's value;
\* Acquire on a name bound to an int16/int32/int64/int n succeeds and leaves
\* Get() = int(n); Apply on a name so bound leaves the environment as it is.
C13_RoundTrip ==
    [][\A n \in KeyName :
        (/\ IsKey(n) /\ last'.name = n /\ n \notin funcs
         /\ km[n].typer = Integer /\ km[n].mode = ReadWrite /\ km[n].val.t = "int")
        => /\ (last'.op = "Apply" /\ scope[n] = Unbound)
                => (last'.err = NoErr /\ scope'[n] = km[n].val)
           /\ (last'.op = "Acquire" /\ scope[n].t \in IntTypes)
                => (last'.err = NoErr /\ KeyGet(km'[n]) = Val("int", scope[n].n))
           /\ (last'.op = "Apply" /\ scope[n].t \in IntTypes)
                => (last'.err = NoErr /\ scope' = scope)]_vars

\* the Key acquired int 5 from the int32(5) the host bound after the first
\* Apply, and the second Apply has left the binding int32(5)
C13_Witness ==
    /\ last = Last("Apply", "a", NoErr)
    /\ km["a"].typer = Integer /\ km["a"].mode = ReadWrite
    /\ KeyGet(km["a"]) = Val("int", 5)
    /\ scope["a"] = Val("int32", 5)

====
